---- MODULE Spec2Model ----
(***************************************************************************)
(* Model of the NSM admission webhook (cmd-admission-webhook-k8s):         *)
(*   src/main.go            admissionWebhookServer.Review and its helpers, *)
(*                          main and prepareTLSConfig                      *)
(*   src/unnamed/part_000   package config (Config and its memoised envs,  *)
(*                          certificate and CA bundle)                     *)
(* Specifications: Spec (one handler, request after request), SpecOnce     *)
(* (concurrent first calls of the accessors), SpecMain (main from the      *)
(* registration to the end of the process), SpecShared (concurrent calls   *)
(* of Review).                                                             *)
(*                                                                         *)
(* Conventions                                                             *)
(*  - A Go string that holds a comma separated list of network service     *)
(*    URLs (the annotation value) is the sequence of its URLs; the empty   *)
(*    string is the empty sequence.                                        *)
(*  - A slash separated path is the sequence of its non-empty segments;    *)
(*    every path built by the program is rooted at "/".                    *)
(*  - A Go map of annotations is [isNil, value]: value is what the map     *)
(*    holds under the key Config.Annotation ("" when the key is missing).  *)
(*  - A Go slice is [arr, len]: arr is the backing array (Len(arr) is the  *)
(*    capacity), len the length.                                           *)
(***************************************************************************)
EXTENDS Integers, Sequences, FiniteSets, TLC

VARIABLES
    config,      \* *config.Config: the fields loaded from the environment
    onceDone,    \* Config.once has run
    envs,        \* Config.envs, the memoised []corev1.EnvVar (a slice)
    uuids,       \* the identifiers uuid.NewString has handed out, in order
    pc,          \* position of the /mutate handler: "idle", "received", "done"
    req,         \* the *admissionv1.AdmissionRequest being handled
    namespace,   \* what Namespaces().Get returned for it
    nsErr,       \* the error Namespaces().Get returned for it
    marshalErr,  \* whether json.Marshal of the patch returned an error
    resp,        \* the *admissionv1.AdmissionResponse of Review
    cert,        \* Config.cert, the memoised tls.Certificate
    caBundle,    \* Config.caBundle, the memoised CA bundle bytes
    world,       \* the surroundings: which loads and connections succeed
    onceM,       \* Config.once.m: the caller holding the mutex, 0 when free
    callers,     \* the goroutines calling a GetOrResolve accessor
    initRuns,    \* how often each part of Config.initialize has been entered
    mainPc,      \* position of main()
    ctxDone,     \* the context of signal.NotifyContext is cancelled
    registered,  \* the webhook configuration is published in the cluster
    unregisterCalls, \* how often registerClient.Unregister has been called
    tlsConfig,   \* the *tls.Config of prepareTLSConfig
    serving,     \* s.StartServer is accepting requests on :443
    exit,        \* how the process stopped: "" while it runs
    handlers     \* the in-flight calls of Review of the concurrent handlers

\* the state of one sequential /mutate handler
reviewVars == <<uuids, pc, req, namespace, nsErr, marshalErr, resp>>
\* the memo of Config
memoVars == <<onceDone, envs, cert, caBundle>>
\* the state of concurrent callers of the accessors
onceVars == <<onceM, callers, initRuns>>
\* the state of main()
mainVars == <<mainPc, ctxDone, registered, unregisterCalls, tlsConfig, serving, exit>>

vars == <<config, world, memoVars, reviewVars, onceVars, mainVars, handlers>>

(***************************************************************************)
(* Bounds of the model.                                                    *)
(***************************************************************************)
\* longest comma separated URL list carried by an annotation
MaxURLs == 2
\* how many entries Config.Envs holds
MaxEnvs == 1
\* how many identifiers uuid.NewString hands out in one run
MaxUUIDs == 2

(***************************************************************************)
(* Strings and small value spaces.                                         *)
(***************************************************************************)
Create == "CREATE"

Operations == {"CREATE", "UPDATE", "DELETE", "CONNECT"}

WrapperKinds == {"Deployment", "DaemonSet", "StatefulSet", "ReplicaSet"}

SupportedKinds == {"Pod"} \cup WrapperKinds

Kinds == SupportedKinds \cup {"Service"}

\* psa.Level values (k8s.io/pod-security-admission/api)
LevelPrivileged == "privileged"

LevelBaseline == "baseline"

LevelRestricted == "restricted"

\* Values the namespace label pod-security.kubernetes.io/enforce may hold;
\* "" is the missing label (a Go map lookup of a missing key yields "").
EnforceLabelValues == {"", LevelPrivileged, LevelBaseline, LevelRestricted, "Restricted-ish"}

\* Raw network service URLs an annotation may list.
PlainURL == "kernel://ns-a/nsm-1"

PoolAURL == "kernel://ns-b/nsm-2?sriovToken=poolA"

PoolBURL == "kernel://ns-c/nsm-3?sriovToken=poolB"

BadURL == "%zz://ns"

RawURLs == {PlainURL, PoolAURL, PoolBURL, BadURL}

SeqsUpTo(S, n) == UNION {[1..k -> S] : k \in 0..n}

AnnotationValues == SeqsUpTo(RawURLs, MaxURLs)

Digits == <<"0", "1", "2", "3", "4", "5", "6", "7", "8", "9">>

\* strconv.Itoa, for the counts the model reaches
Itoa(n) == Digits[n + 1]

EmptyMap == [k \in {} |-> ""]

\* a Go map[string]string with the keys of m overwritten by those of over
MapMerge(m, over) == [k \in DOMAIN m \cup DOMAIN over |-> IF k \in DOMAIN over THEN over[k] ELSE m[k]]

(***************************************************************************)
(* Config (src/unnamed/part_000).                                          *)
(***************************************************************************)
\* Config.Envs entries "KEY=VALUE", each already cut at "=" as
\* strings.Split(envRaw, "=") cuts it.
EnvsPool == << <<"NSM_LOG_LEVEL", "TRACE">>, <<"NSM_CONNECT_TO", "unix:///var/lib/networkservicemesh/nsm.io.sock">>,
               <<"NSM_REQUEST_TIMEOUT", "45s">>, <<"NSM_MAX_TOKEN_LIFETIME", "10m">>,
               <<"NSM_LIVENESSCHECKENABLED", "false">>, <<"NSM_DIAL_TIMEOUT", "5s">> >>

\* An image reference: the directory part of its path and the base name
\* already cut at ":" as nameOf cuts it.
Image(dir, base) == [dir |-> dir, base |-> base]

\* Mode, named as Mode.Decode names it
SpireMode == "spire"

SelfregisterMode == "selfregister"

\* The loaded configuration with n extra env vars. The annotation key, the
\* env name and the sidecar quantities are the defaults of the struct tags.
ConfigWith(n) ==
    [Annotation |-> "networkservicemesh.io",
     Labels |-> ("spiffe.io/spiffe-id" :> "true"),
     NSURLEnvName |-> "NSM_NETWORK_SERVICES",
     InitContainerImages |-> << Image(<<"ghcr.io", "networkservicemesh">>, <<"cmd-nsc-init", "v1.14.0">>),
                                Image(<<"ghcr.io", "networkservicemesh">>, <<"cmd-dns-init">>) >>,
     ContainerImages |-> << Image(<<"ghcr.io", "networkservicemesh">>, <<"cmd-nsc", "v1.14.0">>) >>,
     Envs |-> SubSeq(EnvsPool, 1, n),
     ServiceName |-> "default",
     Namespace |-> "default",
     WebhookMode |-> SpireMode,
     CertFilePath |-> "",
     KeyFilePath |-> "",
     CABundleFilePath |-> "",
     SidecarLimitsMemory |-> "80Mi",
     SidecarLimitsCPU |-> "200m",
     SidecarRequestsMemory |-> "40Mi",
     SidecarRequestsCPU |-> "100m"]

Configs == {ConfigWith(MaxEnvs)}

(***************************************************************************)
(* Kubernetes objects, as far as the webhook reads or writes them.         *)
(***************************************************************************)
\* corev1.EnvVar. Value is, like an annotation value, the sequence of the
\* comma separated items of the string; FieldPath "" is a nil ValueFrom.
EnvVar(name, value, fieldPath) == [Name |-> name, Value |-> value, FieldPath |-> fieldPath]

NilSecurityContext == [isNil |-> TRUE, Drop |-> <<>>, AllowPrivilegeEscalation |-> TRUE]

\* corev1.ResourceRequirements
NoResources == [Limits |-> EmptyMap, Requests |-> EmptyMap]

\* corev1.Container
Container(name, image, env) ==
    [Name |-> name, Image |-> image, Env |-> env, ImagePullPolicy |-> "",
     VolumeMounts |-> <<>>, Resources |-> NoResources, SecurityContext |-> NilSecurityContext]

NoImage == Image(<<>>, <<"busybox">>)

NilCSI == [isNil |-> TRUE, Driver |-> "", ReadOnly |-> FALSE]

NilHostPath == [isNil |-> TRUE, Path |-> "", Type |-> ""]

\* corev1.Volume with its two possible sources
Volume(name, csi, hostPath) == [Name |-> name, CSI |-> csi, HostPath |-> hostPath]

\* corev1.PodSpec
EmptyPodSpec == [InitContainers |-> <<>>, Containers |-> <<>>, Volumes |-> <<>>]

WorkloadPodSpec ==
    [InitContainers |-> << Container("setup", NoImage, <<>>) >>,
     Containers |-> << Container("app", NoImage, << EnvVar("NSM_NETWORK_SERVICES", <<"app-own-value">>, "") >>) >>,
     Volumes |-> << Volume("data", NilCSI, [isNil |-> FALSE, Path |-> "/srv/data", Type |-> "Directory"]) >>]

\* map[string]string of annotations, reduced to the key Config.Annotation
NilAnnotations == [isNil |-> TRUE, value |-> <<>>]

Annotations(v) == [isNil |-> FALSE, value |-> v]

AnnotationMaps == {NilAnnotations} \cup {Annotations(v) : v \in AnnotationValues}

\* map[string]string of labels
NilLabels == [isNil |-> TRUE, map |-> EmptyMap]

Labels(m) == [isNil |-> FALSE, map |-> m]

\* v1.ObjectMeta
ObjectMeta(annotations, labels, generateName, owners) ==
    [Annotations |-> annotations, Labels |-> labels, GenerateName |-> generateName, OwnerReferences |-> owners]

EmptyMeta == ObjectMeta(NilAnnotations, NilLabels, "", <<>>)

\* the kinds named by metadata.ownerReferences
OwnerReferenceLists == {<<>>, <<"Rollout">>, <<"Rollout", "Deployment">>}

GenerateNames == {"", "web-"}

\* What the pod metadata and the pod spec carry besides the annotation: a
\* bare workload (no labels, empty spec) or a populated one.
Contents == {[labels |-> NilLabels, spec |-> EmptyPodSpec],
             [labels |-> Labels(("app" :> "web") @@ ("spiffe.io/spiffe-id" :> "false")), spec |-> WorkloadPodSpec]}

\* Object.Raw of a request: decodes says whether json.Unmarshal accepts it;
\* meta is metadata, template is spec.template.metadata and spec the pod spec
\* (spec for a Pod, spec.template.spec for a wrapper kind).
RawObject(decodes, meta, template, spec) == [decodes |-> decodes, meta |-> meta, template |-> template, spec |-> spec]

Garbage == RawObject(FALSE, EmptyMeta, EmptyMeta, EmptyPodSpec)

PodObjects ==
    {RawObject(TRUE, ObjectMeta(a, c.labels, g, <<>>), EmptyMeta, c.spec) :
        a \in AnnotationMaps, g \in GenerateNames, c \in Contents}

TemplateAnnotationMaps == {NilAnnotations, Annotations(<<PlainURL>>)}

WrapperObjects ==
    {RawObject(TRUE, ObjectMeta(a, NilLabels, "", o), ObjectMeta(t[1], t[3].labels, t[2], <<>>), t[3].spec) :
        a \in AnnotationMaps, o \in OwnerReferenceLists,
        t \in TemplateAnnotationMaps \X GenerateNames \X Contents}

ObjectsOf(kind) == {Garbage} \cup (IF kind \in WrapperKinds THEN WrapperObjects ELSE PodObjects)

\* admissionv1.AdmissionRequest
Requests ==
    {[UID |-> "705ab4f5", Operation |-> op, Kind |-> k[1], Namespace |-> "default", Object |-> k[2]] :
        op \in Operations, k \in {kk \in Kinds \X (PodObjects \cup WrapperObjects \cup {Garbage}) : kk[2] \in ObjectsOf(kk[1])}}

NoRequest == [UID |-> "", Operation |-> "", Kind |-> "", Namespace |-> "", Object |-> Garbage]

\* corev1.Namespace as Namespaces().Get returns it: nil, or an object with
\* its annotation value and its enforce label
NilNamespace == [isNil |-> TRUE, Annotations |-> NilAnnotations, EnforceLabel |-> ""]

Namespace(annotations, enforce) == [isNil |-> FALSE, Annotations |-> annotations, EnforceLabel |-> enforce]

NamespaceAnnotationMaps == {NilAnnotations, Annotations(<<PoolAURL>>)}

\* A successful Get returns the stored namespace. A failed Get returns the
\* error with nil or with an empty object, depending on the client.
GetOutcomes ==
    {[namespace |-> Namespace(a, l), err |-> FALSE] : a \in NamespaceAnnotationMaps, l \in EnforceLabelValues}
    \cup {[namespace |-> NilNamespace, err |-> TRUE], [namespace |-> Namespace(NilAnnotations, ""), err |-> TRUE]}

\* admissionv1.AdmissionResponse; Patch <<>> is no patch, PatchType "" is a
\* nil pointer, Result "" is a nil *v1.Status
Response(uid, allowed, patch, patchType, result) ==
    [UID |-> uid, Allowed |-> allowed, Patch |-> patch, PatchType |-> patchType, Result |-> result]

NoResponse == Response("", FALSE, <<>>, "", "")

(***************************************************************************)
(* Library functions the webhook calls.                                    *)
(***************************************************************************)
\* strings.Split(v, ","): a string is already the sequence of its comma
\* separated items, and the empty string splits into one empty item.
SplitComma(v) == IF v = <<>> THEN <<"">> ELSE v

\* url.Parse on the raw URLs of the model: the error, and the query of the
\* parsed URL (which nsurl.NSURL.Labels returns as the labels).
UrlParse(rawURL) ==
    CASE rawURL = BadURL -> [err |-> TRUE, query |-> EmptyMap]
      [] rawURL = PoolAURL -> [err |-> FALSE, query |-> ("sriovToken" :> "poolA")]
      [] rawURL = PoolBURL -> [err |-> FALSE, query |-> ("sriovToken" :> "poolB")]
      [] OTHER -> [err |-> FALSE, query |-> EmptyMap]

\* psa.ParseLevel: the three levels parse, anything else is an error
ParseLevel(level) ==
    IF level \in {LevelPrivileged, LevelBaseline, LevelRestricted}
    THEN [level |-> level, err |-> FALSE]
    ELSE [level |-> LevelRestricted, err |-> TRUE]

\* path.Join: the segments of the elements, empty ones dropped
RECURSIVE PathJoin(_)
PathJoin(elems) == IF elems = <<>> THEN <<>> ELSE Head(elems) \o PathJoin(Tail(elems))

\* a rooted path as the string Go holds
RECURSIVE PathString(_)
PathString(segs) ==
    IF segs = <<>> THEN "/"
    ELSE IF Len(segs) = 1 THEN "/" \o segs[1]
    ELSE "/" \o segs[1] \o PathString(Tail(segs))

\* uuid.NewString: the n-th identifier handed out; no two are equal
NewString(n) == "6ba7b810-9dad-11d1-80b4-00c04fd430c" \o Itoa(n)

\* jsonpatch.NewOperation
NewOperation(op, path, value) == [Operation |-> op, Path |-> path, Value |-> value]

(***************************************************************************)
(* Go slices: append writes into the backing array when the capacity       *)
(* allows it and moves to a larger array otherwise.                        *)
(***************************************************************************)
NilSlice == [arr |-> <<>>, len |-> 0]

SliceElems(s) == SubSeq(s.arr, 1, s.len)

ZeroEnvVar == EnvVar("", <<>>, "")

\* capacity of the array append moves to (runtime.growslice, below 256
\* elements; the size classes do not round a []corev1.EnvVar further up)
GrowCap(oldCap, needed) == IF needed > oldCap + oldCap THEN needed ELSE oldCap + oldCap

AppendSlice(s, xs) ==
    LET n == s.len + Len(xs)
        cap == IF n <= Len(s.arr) THEN Len(s.arr) ELSE GrowCap(Len(s.arr), n)
    IN [arr |-> [i \in 1..cap |-> IF i <= s.len THEN s.arr[i]
                                  ELSE IF i <= n THEN xs[i - s.len]
                                  ELSE IF i <= Len(s.arr) THEN s.arr[i] ELSE ZeroEnvVar],
        len |-> n]

\* whether append(s, xs...) returns a slice of the array s lives in
AppendInPlace(s, xs) == s.len + Len(xs) <= Len(s.arr)

(***************************************************************************)
(* Config.GetOrResolveEnvs (src/unnamed/part_000).                         *)
(***************************************************************************)
RECURSIVE initializeEnvsLoop(_, _)
initializeEnvsLoop(slice, raws) ==
    IF raws = <<>> THEN slice
    ELSE LET kv == Head(raws)
         IN initializeEnvsLoop(AppendSlice(slice, << EnvVar(kv[1], <<kv[2]>>, "") >>), Tail(raws))

initializeEnvs(c, slice) ==
    AppendSlice(initializeEnvsLoop(slice, c.Envs),
                << EnvVar("SPIFFE_ENDPOINT_SOCKET", <<"unix:///run/spire/sockets/agent.sock">>, ""),
                   EnvVar("POD_NAME", <<>>, "metadata.name") >>)

\* c.once.Do(c.initialize): the memoised envs after the call
OnceDoInitialize(c, done, slice) == IF done THEN slice ELSE initializeEnvs(c, slice)

(***************************************************************************)
(* Config.GetOrResolveCertificate and Config.GetOrResolveCABundle          *)
(* (src/unnamed/part_000). A tls.Certificate is told by where it comes     *)
(* from and what it names; a []byte by the file or the certificate it is   *)
(* the content or the PEM encoding of. world tells, for the configured     *)
(* paths, whether tls.LoadX509KeyPair and os.ReadFile succeed. The memo m  *)
(* is [envs, cert, caBundle, panic]: panic is the message of the panic     *)
(* that ended the call, "" when it returned.                               *)
(***************************************************************************)
\* the zero tls.Certificate
ZeroCertificate == [origin |-> "", certFile |-> "", keyFile |-> "", commonName |-> "", dnsNames |-> <<>>]

\* the zero []byte
NoBytes == [origin |-> "", of |-> ""]

\* what os.ReadFile(path) returns when it succeeds
ReadFile(path) == [origin |-> "file", of |-> path]

\* what tls.LoadX509KeyPair returns when it succeeds
LoadX509KeyPair(certFile, keyFile) ==
    [origin |-> "files", certFile |-> certFile, keyFile |-> keyFile, commonName |-> "", dnsNames |-> <<>>]

\* pem.EncodeToMemory of the certificate block
pemCert(certificate) == [origin |-> "pem", of |-> certificate.commonName]

\* IsExistingCertificatesUsed with one configured path being enough
IsExistingCertificatesUsedEither(c) == c.CertFilePath # "" \/ c.KeyFilePath # ""

IsExistingCertificatesUsed(c) == c.CertFilePath # "" /\ c.KeyFilePath # ""

\* the certificate selfSignedInMemoryCertificate returns; it leaves its PEM
\* encoding in c.caBundle
selfSignedInMemoryCertificate(c) ==
    [origin |-> "selfsigned", certFile |-> "", keyFile |-> "",
     commonName |-> "networkservicemesh." \o c.ServiceName \o "-ca",
     dnsNames |-> << c.ServiceName \o "." \o c.Namespace, c.ServiceName \o "." \o c.Namespace \o ".svc" >>]

initializeCert(c, fs, m) ==
    IF IsExistingCertificatesUsed(c)
    THEN IF fs.keyPair
         THEN [m EXCEPT !.cert = LoadX509KeyPair(c.CertFilePath, c.KeyFilePath)]
         ELSE [m EXCEPT !.panic = "tls: failed to load the key pair"]
    ELSE IF c.WebhookMode = SelfregisterMode
         THEN [m EXCEPT !.cert = selfSignedInMemoryCertificate(c),
                        !.caBundle = pemCert(selfSignedInMemoryCertificate(c))]
         ELSE m

\* os.ReadFile of the empty path fails like that of an unreadable file
initializeCABundle(c, fs, m) ==
    IF c.WebhookMode # SelfregisterMode THEN m
    ELSE IF m.caBundle # NoBytes THEN m
    ELSE IF c.CABundleFilePath # "" /\ fs.caBundle
         THEN [m EXCEPT !.caBundle = ReadFile(c.CABundleFilePath)]
         ELSE [m EXCEPT !.panic = "open: no such file or directory"]

\* Config.initialize: a panic of initializeCert ends it
initialize(c, fs, m) ==
    LET withEnvs == [m EXCEPT !.envs = initializeEnvs(c, m.envs)]
        withCert == initializeCert(c, fs, withEnvs)
    IN IF withCert.panic # "" THEN withCert ELSE initializeCABundle(c, fs, withCert)

\* c.once.Do(c.initialize), called by one goroutine alone: the Once is done
\* whether initialize returned or panicked
OnceDo(c, fs, done, m) == IF done THEN m ELSE initialize(c, fs, m)

\* the memo before the first call
ZeroMemo == [envs |-> NilSlice, cert |-> ZeroCertificate, caBundle |-> NoBytes, panic |-> ""]

(***************************************************************************)
(* The decision and patch engine (src/main.go).                            *)
(***************************************************************************)
\* psaLevelByNamespace taking the level ParseLevel returns with its error
psaLevelByNamespaceIgnoringErr(ns) ==
    IF ns.isNil THEN LevelPrivileged ELSE ParseLevel(ns.EnforceLabel).level

psaLevelByNamespace(ns) ==
    IF ns.isNil THEN LevelPrivileged
    ELSE LET parsed == ParseLevel(ns.EnforceLabel)
         IN IF parsed.err THEN LevelPrivileged ELSE parsed.level

\* "no view": the nil, nil that unmarshal returns
NilView == [isNil |-> TRUE, podMeta |-> EmptyMeta, spec |-> EmptyPodSpec]

NilMeta == [isNil |-> TRUE, meta |-> EmptyMeta]

\* postProcessPodMeta without the owner reference check of a ReplicaSet
postProcessPodMetaNoOwnerCheck(podMeta, meta, kind) ==
    LET labelled == IF podMeta.Labels.isNil THEN [podMeta EXCEPT !.Labels = Labels(EmptyMap)] ELSE podMeta
        annotated == IF kind # "Pod" THEN [labelled EXCEPT !.Annotations = meta.Annotations] ELSE labelled
    IN IF kind # "Pod" /\ ~podMeta.Annotations.isNil THEN NilMeta
       ELSE [isNil |-> FALSE, meta |-> annotated]

postProcessPodMeta(podMeta, meta, kind) ==
    LET labelled == IF podMeta.Labels.isNil THEN [podMeta EXCEPT !.Labels = Labels(EmptyMap)] ELSE podMeta
        annotated == IF kind # "Pod" THEN [labelled EXCEPT !.Annotations = meta.Annotations] ELSE labelled
    IN IF kind # "Pod" /\ ~podMeta.Annotations.isNil THEN NilMeta
       ELSE IF kind = "ReplicaSet" /\ \E i \in 1..Len(meta.OwnerReferences) : meta.OwnerReferences[i] = "Deployment"
       THEN NilMeta
       ELSE [isNil |-> FALSE, meta |-> annotated]

unmarshal(in) ==
    IF in.Kind \notin SupportedKinds THEN NilView
    ELSE IF ~in.Object.decodes THEN NilView
    ELSE LET podMeta == IF in.Kind = "Pod" THEN in.Object.meta ELSE in.Object.template
             post == postProcessPodMeta(podMeta, in.Object.meta, in.Kind)
         IN IF post.isNil THEN NilView
            ELSE [isNil |-> FALSE, podMeta |-> post.meta, spec |-> in.Object.spec]

RECURSIVE countPools(_, _)
countPools(urls, poolResources) ==
    IF urls = <<>> THEN poolResources
    ELSE LET labels == UrlParse(Head(urls)).query
             pool == labels["sriovToken"]
         IN IF "sriovToken" \in DOMAIN labels
            THEN countPools(Tail(urls),
                            MapMerge(poolResources,
                                     pool :> (IF pool \in DOMAIN poolResources THEN poolResources[pool] + 1 ELSE 1)))
            ELSE countPools(Tail(urls), poolResources)

\* nil when a URL of the list is malformed, else the number of URLs per pool
parseResources(v) ==
    LET rawURLs == SplitComma(v)
    IN IF \E i \in 1..Len(rawURLs) : UrlParse(rawURLs[i]).err
       THEN [isNil |-> TRUE, map |-> EmptyMap]
       ELSE [isNil |-> FALSE, map |-> countPools(rawURLs, EmptyMap)]

nameOf(img) == img.base[1]

VolumeMount(name, mountPath) == [Name |-> name, MountPath |-> mountPath, ReadOnly |-> TRUE]

addVolumeMounts(c) ==
    [c EXCEPT !.VolumeMounts = @ \o << VolumeMount("spire-agent-socket", "/run/spire/sockets"),
                                       VolumeMount("nsm-socket", "/var/lib/networkservicemesh") >>]

addResources(c, r) ==
    [c EXCEPT !.Resources.Limits = MapMerge(@, [key \in DOMAIN r.map |-> Itoa(r.map[key])])]

addResourcesLimits(c, cfg) ==
    [c EXCEPT !.Resources = [Limits |-> ("cpu" :> cfg.SidecarLimitsCPU) @@ ("memory" :> cfg.SidecarLimitsMemory),
                             Requests |-> ("cpu" :> cfg.SidecarRequestsCPU) @@ ("memory" :> cfg.SidecarRequestsMemory)]]

RestrictedSecurityContext == [isNil |-> FALSE, Drop |-> <<"ALL">>, AllowPrivilegeEscalation |-> FALSE]

withSecurityContext(c, psaLevel) ==
    IF psaLevel = LevelRestricted THEN [c EXCEPT !.SecurityContext = RestrictedSecurityContext] ELSE c

newSidecar(img, envVars) ==
    [Container(nameOf(img), img, envVars) EXCEPT !.ImagePullPolicy = "IfNotPresent"]

createInitContainerPatch(cfg, p, v, initContainers, psaLevel, envVars) ==
    LET poolResources == parseResources(v)
        injected == [i \in 1..Len(cfg.InitContainerImages) |->
                        withSecurityContext(
                            addResourcesLimits(
                                addResources(addVolumeMounts(newSidecar(cfg.InitContainerImages[i], envVars)),
                                             poolResources),
                                cfg),
                            psaLevel)]
    IN NewOperation("add", PathString(PathJoin(<<p, <<"spec">>, <<"initContainers">> >>)), initContainers \o injected)

createContainerPatch(cfg, p, containers, psaLevel, envVars) ==
    LET injected == [i \in 1..Len(cfg.ContainerImages) |->
                        withSecurityContext(
                            addResourcesLimits(addVolumeMounts(newSidecar(cfg.ContainerImages[i], envVars)), cfg),
                            psaLevel)]
    IN NewOperation("add", PathString(PathJoin(<<p, <<"spec">>, <<"containers">> >>)), containers \o injected)

CSIVolume(name, driver) == Volume(name, [isNil |-> FALSE, Driver |-> driver, ReadOnly |-> TRUE], NilHostPath)

HostPathVolume(name, hostPath) == Volume(name, NilCSI, [isNil |-> FALSE, Path |-> hostPath, Type |-> "Directory"])

\* createVolumesPatch choosing the CSI sources for the restricted level only
createVolumesPatchRestrictedOnly(p, volumes, psaLevel) ==
    LET appended == IF psaLevel = LevelRestricted
                    THEN << CSIVolume("spire-agent-socket", "csi.spiffe.io"),
                            CSIVolume("nsm-socket", "csi.networkservicemesh.io") >>
                    ELSE << HostPathVolume("spire-agent-socket", "/run/spire/sockets"),
                            HostPathVolume("nsm-socket", "/var/lib/networkservicemesh") >>
    IN NewOperation("add", PathString(PathJoin(<<p, <<"spec">>, <<"volumes">> >>)), volumes \o appended)

createVolumesPatch(p, volumes, psaLevel) ==
    LET appended == IF psaLevel # LevelPrivileged
                    THEN << CSIVolume("spire-agent-socket", "csi.spiffe.io"),
                            CSIVolume("nsm-socket", "csi.networkservicemesh.io") >>
                    ELSE << HostPathVolume("spire-agent-socket", "/run/spire/sockets"),
                            HostPathVolume("nsm-socket", "/var/lib/networkservicemesh") >>
    IN NewOperation("add", PathString(PathJoin(<<p, <<"spec">>, <<"volumes">> >>)), volumes \o appended)

createLabelPatch(cfg, p, v) ==
    NewOperation("add", PathString(PathJoin(<<p, <<"metadata">>, <<"labels">> >>)), MapMerge(v, cfg.Labels))

\* json.Marshal of the patch operations: the JSON array of the objects
\* {"op", "path", "value"}, or the error
jsonMarshal(ops, fails) ==
    IF fails THEN [bytes |-> <<>>, err |-> "json: unsupported value"]
    ELSE [bytes |-> [i \in 1..Len(ops) |-> [op |-> ops[i].Operation, path |-> ops[i].Path, value |-> ops[i].Value]],
          err |-> ""]

PatchTypeJSONPatch == "JSONPatch"

\* patchRoot that never descends into the pod template
patchRootOfPod(kind) == PathJoin(<< <<>>, <<>> >>)

\* The path prefix of the patch operations: path.Join("/", p)
patchRoot(kind) == PathJoin(<< <<>>, IF kind # "Pod" THEN <<"spec", "template">> ELSE <<>> >>)

\* effectiveAnnotation without the namespace fallback
effectiveAnnotationOwnOnly(own, kind, ns) == own

\* effectiveAnnotation with the namespace fallback for every kind
effectiveAnnotationAnyKind(own, kind, ns) ==
    IF own = <<>> /\ ~ns.isNil THEN ns.Annotations.value ELSE own

\* The annotation Review acts on: the workload's own, else for a Pod the
\* namespace's when the namespace is there. A wrapper kind without its own
\* annotation is allowed at once, as every request with no annotation is.
effectiveAnnotation(own, kind, ns) ==
    IF own = <<>> /\ kind # "Pod" THEN <<>>
    ELSE IF own = <<>> /\ kind = "Pod" /\ ~ns.isNil THEN ns.Annotations.value
    ELSE own

\* needsClientID with the test of the generated-name prefix inverted
needsClientIDInverted(podMeta) == podMeta.GenerateName # ""

\* whether Review draws a client identifier for the workload
needsClientID(podMeta) == podMeta.GenerateName = ""

nsmNameEnv(podMeta, clientID) ==
    IF needsClientID(podMeta)
    THEN EnvVar("NSM_NAME", <<"$(POD_NAME)-" \o clientID>>, "")
    ELSE EnvVar("NSM_NAME", <<"$(POD_NAME)">>, "")

\* isCreate that takes updates for creations
isCreateOrUpdate(in) == in.Operation \in {Create, "UPDATE"}

\* whether Review acts on the request at all
isCreate(in) == in.Operation = Create

Allow(in) == Response(in.UID, TRUE, <<>>, "", "")

\* admissionWebhookServer.Review on request in, where the namespace lookup
\* returns get, json.Marshal fails or not, cfg/done/slice are the Config and
\* its memo, and ids are the identifiers handed out so far. The result holds
\* the response and what the call left behind.
Review(cfg, done, slice, ids, in, get, fails) ==
    LET unchanged == [onceDone |-> done, envs |-> slice, uuids |-> ids, marshalErr |-> FALSE]
        view == unmarshal(in)
        ns == get.namespace
        own == view.podMeta.Annotations.value
        annotation == effectiveAnnotation(own, in.Kind, ns)
        memo == OnceDoInitialize(cfg, done, slice)
        clientID == NewString(Len(ids) + 1)
        added == << EnvVar(cfg.NSURLEnvName, annotation, ""), nsmNameEnv(view.podMeta, clientID) >>
        envVars == AppendSlice(memo, added)
        psaLevel == psaLevelByNamespace(ns)
        p == patchRoot(in.Kind)
        marshalled == jsonMarshal(
            << createInitContainerPatch(cfg, p, annotation, view.spec.InitContainers, psaLevel, SliceElems(envVars)),
               createContainerPatch(cfg, p, view.spec.Containers, psaLevel, SliceElems(envVars)),
               createVolumesPatch(p, view.spec.Volumes, psaLevel),
               createLabelPatch(cfg, p, view.podMeta.Labels.map) >>, fails)
        after == [onceDone |-> TRUE,
                  envs |-> IF AppendInPlace(memo, added) THEN [arr |-> envVars.arr, len |-> memo.len] ELSE memo,
                  uuids |-> IF needsClientID(view.podMeta) THEN Append(ids, clientID) ELSE ids,
                  marshalErr |-> fails]
    IN IF ~isCreate(in) THEN [resp |-> Allow(in)] @@ unchanged
       ELSE IF view.isNil THEN [resp |-> Allow(in)] @@ unchanged
       ELSE IF annotation = <<>> THEN [resp |-> Allow(in)] @@ unchanged
       ELSE IF marshalled.err # ""
       THEN [resp |-> Response(in.UID, FALSE, <<>>, "", marshalled.err)] @@ after
       ELSE [resp |-> Response(in.UID, TRUE, marshalled.bytes, PatchTypeJSONPatch, "")] @@ after

(***************************************************************************)
(* The /mutate handler: one request at a time is read, reviewed, answered. *)
(***************************************************************************)
NoGet == [namespace |-> NilNamespace, err |-> FALSE]

\* the surroundings in which every load and every connection succeeds:
\* tls.LoadX509KeyPair, os.ReadFile of the CA bundle, workloadapi.NewX509Source,
\* registerClient.Register, and the construction of the API client
AllFiles == [keyPair |-> TRUE, caBundle |-> TRUE, x509Source |-> TRUE, register |-> TRUE, clientSet |-> TRUE]

\* the tls.Config before prepareTLSConfig returned one
NoTLSConfig == [Certificates |-> <<>>, GetCertificate |-> ""]

\* no goroutine but the /mutate handler calls an accessor
OnceAtRest == onceM = 0 /\ callers = <<>> /\ initRuns = 0

\* main() has started the server and waits in its select
MainInSelect ==
    /\ mainPc = "select"
    /\ ctxDone = FALSE
    /\ registered = FALSE
    /\ unregisterCalls = 0
    /\ tlsConfig = NoTLSConfig
    /\ serving = "yes"
    /\ exit = ""

Init ==
    /\ config \in Configs
    /\ world = AllFiles
    /\ cert = ZeroCertificate
    /\ caBundle = NoBytes
    /\ OnceAtRest
    /\ MainInSelect
    /\ handlers = <<>>
    /\ onceDone = FALSE
    /\ envs = NilSlice
    /\ uuids = <<>>
    /\ pc = "idle"
    /\ req = NoRequest
    /\ namespace = NilNamespace
    /\ nsErr = FALSE
    /\ marshalErr = FALSE
    /\ resp = NoResponse

\* the handler decodes an AdmissionReview from the request body
Receive ==
    /\ pc = "idle"
    /\ Len(uuids) < MaxUUIDs
    /\ req' \in Requests
    /\ pc' = "received"
    /\ UNCHANGED <<config, onceDone, envs, uuids, namespace, nsErr, marshalErr, resp>>
    /\ UNCHANGED <<world, cert, caBundle, onceVars, mainVars, handlers>>

\* review.Response = handler.Review(ctx, review.Request)
DoReview ==
    /\ pc = "received"
    /\ \E get \in (IF isCreate(req) THEN GetOutcomes ELSE {NoGet}), fails \in BOOLEAN :
          LET out == Review(config, onceDone, envs, uuids, req, get, fails)
          IN /\ resp' = out.resp
             /\ onceDone' = out.onceDone
             /\ envs' = out.envs
             /\ uuids' = out.uuids
             /\ marshalErr' = out.marshalErr
             /\ namespace' = get.namespace
             /\ nsErr' = get.err
    /\ pc' = "done"
    /\ UNCHANGED <<config, req>>
    /\ UNCHANGED <<world, cert, caBundle, onceVars, mainVars, handlers>>

\* the handler writes the review and returns
Respond ==
    /\ pc = "done"
    /\ pc' = "idle"
    /\ req' = NoRequest
    /\ resp' = NoResponse
    /\ namespace' = NilNamespace
    /\ nsErr' = FALSE
    /\ marshalErr' = FALSE
    /\ UNCHANGED <<config, onceDone, envs, uuids>>
    /\ UNCHANGED <<world, cert, caBundle, onceVars, mainVars, handlers>>

Next == Receive \/ DoReview \/ Respond

Spec == Init /\ [][Next]_vars

(***************************************************************************)
(* Properties of Review. They are stated on the state the handler is in    *)
(* right after Review returned (pc = "done"): req is the request, namespace*)
(* and nsErr the outcome of the lookup, resp the response.                 *)
(***************************************************************************)
Reviewed == pc = "done"

Unmodified == resp.Allowed /\ resp.Patch = <<>> /\ resp.PatchType = "" /\ resp.Result = ""

Patched == resp.Patch # <<>>

\* the annotation value the workload itself declares
OwnAnnotation == req.Object.meta.Annotations.value

\* the pod metadata of the payload: the object's for a Pod, the template's else
PayloadPodMeta == IF req.Kind = "Pod" THEN req.Object.meta ELSE req.Object.template

\* the lookup succeeded and returned the namespace
NamespaceResolved == ~nsErr /\ ~namespace.isNil

NamespaceAnnotation == namespace.Annotations.value

\* the four ways the claims name for a view to be rejected
ViewRejected ==
    \/ req.Kind \notin {"Pod", "Deployment", "DaemonSet", "StatefulSet", "ReplicaSet"}
    \/ ~req.Object.decodes
    \/ req.Kind # "Pod" /\ ~req.Object.template.Annotations.isNil
    \/ req.Kind = "ReplicaSet"
         /\ \E i \in 1..Len(req.Object.meta.OwnerReferences) : req.Object.meta.OwnerReferences[i] = "Deployment"

LastN(seq, n) == SubSeq(seq, Len(seq) - n + 1, Len(seq))

Range(seq) == {seq[i] : i \in 1..Len(seq)}

\* the containers the patch adds to what the workload already had
InjectedInitContainers == Range(LastN(resp.Patch[1].value, Len(config.InitContainerImages)))

InjectedContainers == Range(LastN(resp.Patch[2].value, Len(config.ContainerImages)))

AppendedVolumes == LastN(resp.Patch[3].value, 2)

\* the values a container gives to the env var called name
EnvValues(c, name) == {c.Env[i].Value : i \in {j \in 1..Len(c.Env) : c.Env[j].Name = name}}

\* C1: a request whose operation is not CREATE is allowed with no patch, no
\* patch type and no error status, whatever its kind and payload.
C1_NonCreateUnmodified == Reviewed /\ req.Operation # "CREATE" => Unmodified

\* an UPDATE of an annotated Deployment in an annotated namespace went through
C1_Witness ==
    /\ Reviewed /\ req.Operation = "UPDATE" /\ req.Kind = "Deployment"
    /\ ~ViewRejected /\ OwnAnnotation = <<PoolAURL>> /\ Unmodified

\* C2: every response is allowed, also the one of a failed serialisation of
\* the patch, which carries an error status and no patch.
C2_AlwaysAllowed ==
    Reviewed => /\ resp.Allowed
                /\ (marshalErr => resp.Result # "" /\ resp.Patch = <<>>)

\* C3: a created Pod without its own annotation takes the annotation X of a
\* resolved namespace: the patch sets the mesh-URL env var of every injected
\* container and init container to X (the patch being serialised, see C2);
\* with no annotation on the namespace either it is allowed with no patch.
C3_PodNamespaceFallback ==
    Reviewed /\ req.Operation = "CREATE" /\ req.Kind = "Pod" /\ req.Object.decodes /\ OwnAnnotation = <<>> =>
        /\ NamespaceResolved /\ NamespaceAnnotation # <<>> /\ ~marshalErr =>
              /\ Patched
              /\ \A c \in InjectedInitContainers \cup InjectedContainers :
                    EnvValues(c, config.NSURLEnvName) = {NamespaceAnnotation}
        /\ namespace.isNil \/ NamespaceAnnotation = <<>> => Unmodified

\* a Pod with no annotation of its own was patched from its namespace
C3_Witness ==
    /\ Reviewed /\ req.Operation = "CREATE" /\ req.Kind = "Pod" /\ req.Object.decodes
    /\ OwnAnnotation = <<>> /\ NamespaceResolved /\ NamespaceAnnotation = <<PoolAURL>>
    /\ Patched /\ InjectedInitContainers # {} /\ InjectedContainers # {}

\* C4: a created wrapper kind without its own annotation is allowed with no
\* patch whatever the namespace carries.
C4_WrapperNeverInherits ==
    Reviewed /\ req.Operation = "CREATE" /\ req.Kind \in {"Deployment", "DaemonSet", "StatefulSet", "ReplicaSet"}
             /\ OwnAnnotation = <<>> => Unmodified

\* a Deployment with no annotation in an annotated namespace went through
C4_Witness ==
    /\ Reviewed /\ req.Operation = "CREATE" /\ req.Kind = "Deployment" /\ ~ViewRejected
    /\ OwnAnnotation = <<>> /\ NamespaceResolved /\ NamespaceAnnotation # <<>> /\ Unmodified

\* C5: a created object whose view is rejected (unsupported kind, payload
\* that does not decode, annotated pod template of a wrapper kind,
\* ReplicaSet owned by a Deployment) is allowed with no patch and no error
\* status, whatever annotations the workload and the namespace carry.
C5_RejectedViewUnmodified == Reviewed /\ req.Operation = "CREATE" /\ ViewRejected => Unmodified

\* an annotated ReplicaSet owned by a Deployment went through
C5_Witness ==
    /\ Reviewed /\ req.Operation = "CREATE" /\ req.Kind = "ReplicaSet" /\ req.Object.decodes
    /\ req.Object.template.Annotations.isNil /\ req.Object.meta.OwnerReferences = <<"Rollout", "Deployment">>
    /\ OwnAnnotation = <<PoolAURL>> /\ NamespaceResolved /\ NamespaceAnnotation # <<>> /\ Unmodified

\* C6: a failed namespace lookup does not fail the request (allowed, no
\* error status, the patch being serialised, see C2); a Pod without its own
\* annotation gets no patch; a workload with an accepted view and its own
\* annotation is patched as for the Privileged level: host-path volumes and
\* no security context on the injected containers.
C6_LookupFailureDegrades ==
    Reviewed /\ req.Operation = "CREATE" /\ nsErr =>
        /\ ~marshalErr => resp.Allowed /\ resp.Result = ""
        /\ req.Kind = "Pod" /\ OwnAnnotation = <<>> => Unmodified
        /\ ~ViewRejected /\ OwnAnnotation # <<>> /\ ~marshalErr =>
              /\ Patched
              /\ \A i \in 1..2 : AppendedVolumes[i].CSI.isNil /\ ~AppendedVolumes[i].HostPath.isNil
              /\ \A c \in InjectedInitContainers \cup InjectedContainers : c.SecurityContext.isNil

\* an annotated StatefulSet was patched although the lookup failed
C6_Witness ==
    /\ Reviewed /\ req.Operation = "CREATE" /\ nsErr /\ ~namespace.isNil
    /\ req.Kind = "StatefulSet" /\ ~ViewRejected /\ OwnAnnotation # <<>> /\ Patched

\* how many URLs of the annotation v carry the sriovToken value pool
TokenCount(v, pool) ==
    Cardinality({i \in 1..Len(v) : LET q == UrlParse(v[i]).query
                                   IN "sriovToken" \in DOMAIN q /\ q["sriovToken"] = pool})

\* the annotation a patched response was built from
PatchedAnnotation == IF OwnAnnotation # <<>> THEN OwnAnnotation ELSE NamespaceAnnotation

\* C7: every injected init container carries, in its resource limits, one
\* limit per sriovToken value of the annotation's URLs, whose quantity is
\* the number of URLs that carry the value.
C7_TokenLimits ==
    Reviewed /\ Patched /\ (\A i \in 1..Len(PatchedAnnotation) : ~UrlParse(PatchedAnnotation[i]).err) =>
        \A c \in InjectedInitContainers : \A pool \in {"poolA", "poolB"} :
            TokenCount(PatchedAnnotation, pool) > 0 =>
                /\ pool \in DOMAIN c.Resources.Limits
                /\ c.Resources.Limits[pool] = Itoa(TokenCount(PatchedAnnotation, pool))

\* the path of a patch operation for the request's kind
ExpectedPath(suffix) == IF req.Kind = "Pod" THEN suffix ELSE "/spec/template" \o suffix

\* C8: an emitted patch is the four "add" operations initContainers,
\* containers, volumes, labels in this order, on the paths of the pod for a
\* Pod and on the same paths under /spec/template for a wrapper kind, and
\* its type is JSONPatch.
C8_FourAddOperations ==
    Reviewed /\ Patched =>
        /\ Len(resp.Patch) = 4
        /\ \A i \in 1..4 : resp.Patch[i].op = "add"
        /\ resp.Patch[1].path = ExpectedPath("/spec/initContainers")
        /\ resp.Patch[2].path = ExpectedPath("/spec/containers")
        /\ resp.Patch[3].path = ExpectedPath("/spec/volumes")
        /\ resp.Patch[4].path = ExpectedPath("/metadata/labels")
        /\ resp.PatchType = "JSONPatch"

\* a DaemonSet was patched under /spec/template
C8_Witness ==
    /\ Reviewed /\ Patched /\ req.Kind = "DaemonSet"
    /\ resp.Patch[3].path = "/spec/template/spec/volumes"

\* the level is not Privileged: the namespace is there and labelled so
LabelledNonPrivileged == ~namespace.isNil /\ namespace.EnforceLabel \in {"restricted", "baseline"}

\* C9: the two appended volumes, spire-agent-socket and nsm-socket, are both
\* read-only CSI volumes when the namespace is labelled restricted or
\* baseline, and both host-path volumes otherwise (label privileged,
\* missing or unparseable, namespace nil); never one of each.
C9_VolumeStrategy ==
    Reviewed /\ Patched =>
        /\ AppendedVolumes[1].Name = "spire-agent-socket"
        /\ AppendedVolumes[2].Name = "nsm-socket"
        /\ \A i \in 1..2 :
              IF LabelledNonPrivileged
              THEN /\ ~AppendedVolumes[i].CSI.isNil /\ AppendedVolumes[i].CSI.ReadOnly
                   /\ AppendedVolumes[i].HostPath.isNil
              ELSE /\ AppendedVolumes[i].CSI.isNil
                   /\ ~AppendedVolumes[i].HostPath.isNil

\* a workload of a baseline namespace got the CSI volumes
C9_Witness ==
    /\ Reviewed /\ Patched /\ ~namespace.isNil /\ namespace.EnforceLabel = "baseline"
    /\ ~AppendedVolumes[1].CSI.isNil /\ ~AppendedVolumes[2].CSI.isNil

\* C10: in an emitted patch NSM_NAME is $(POD_NAME) alone when the pod
\* metadata has a generated-name prefix, and $(POD_NAME) followed by the
\* identifier drawn for this request when it has none; no identifier is
\* drawn twice.
C10_ClientIdentity ==
    /\ Reviewed /\ Patched =>
          \A c \in InjectedInitContainers \cup InjectedContainers :
              IF PayloadPodMeta.GenerateName # ""
              THEN EnvValues(c, "NSM_NAME") = {<<"$(POD_NAME)">>}
              ELSE uuids # <<>> /\ EnvValues(c, "NSM_NAME") = {<<"$(POD_NAME)-" \o uuids[Len(uuids)]>>}
    /\ \A i, j \in 1..Len(uuids) : i # j => uuids[i] # uuids[j]

\* the second workload without a prefix was patched with its own identifier
C10_Witness ==
    /\ Reviewed /\ Patched /\ PayloadPodMeta.GenerateName = "" /\ Len(uuids) = 2
    /\ \E c \in InjectedContainers : EnvValues(c, "NSM_NAME") = {<<"$(POD_NAME)-" \o uuids[2]>>}

(***************************************************************************)
(* Concurrent first calls of GetOrResolveEnvs, GetOrResolveCABundle and    *)
(* GetOrResolveCertificate on one Config (src/unnamed/part_000). Each      *)
(* caller runs c.once.Do(c.initialize) and then reads its field. sync.Once *)
(* loads its done flag, and when that is unset takes its mutex, loads the  *)
(* flag again, runs the function, sets the flag and releases the mutex.    *)
(* initialize is taken one assignment to a field of Config at a time.      *)
(***************************************************************************)
\* how many goroutines call an accessor for the first time
NumCallers == 2

Callers == 1..NumCallers

Accessors == {"GetOrResolveEnvs", "GetOrResolveCABundle", "GetOrResolveCertificate"}

\* what a caller holds before its accessor returned
NoReturn == [envs |-> <<>>, cert |-> ZeroCertificate, caBundle |-> NoBytes]

\* the operating modes and file paths a Config can be loaded with
ModeConfigs ==
    { [ConfigWith(MaxEnvs) EXCEPT !.WebhookMode = mode, !.CertFilePath = certFile,
                                  !.KeyFilePath = keyFile, !.CABundleFilePath = caFile] :
        mode \in {SpireMode, SelfregisterMode}, certFile \in {"", "/certs/tls.crt"},
        keyFile \in {"", "/certs/tls.key"}, caFile \in {"", "/certs/ca.crt"} }

\* Mutex.Lock granted although the mutex is held
MutexLockAlways(m) == TRUE

\* o.m.Lock() is granted when the mutex is free
MutexLock(m) == m = 0

\* the memo as the record the initialisers take
Memo == [envs |-> envs, cert |-> cert, caBundle |-> caBundle, panic |-> ""]

InitOnce ==
    /\ config \in {c \in ModeConfigs : initialize(c, AllFiles, ZeroMemo).panic = ""}
    /\ world = AllFiles
    /\ onceDone = FALSE
    /\ envs = NilSlice
    /\ cert = ZeroCertificate
    /\ caBundle = NoBytes
    /\ onceM = 0
    /\ callers \in [Callers -> {[pc |-> "call", accessor |-> a, ret |-> NoReturn] : a \in Accessors}]
    /\ initRuns = 0
    /\ uuids = <<>> /\ pc = "idle" /\ req = NoRequest /\ namespace = NilNamespace
    /\ nsErr = FALSE /\ marshalErr = FALSE /\ resp = NoResponse
    /\ MainInSelect
    /\ handlers = <<>>

\* if o.done.Load() == 0 { o.doSlow(f) }
OnceLoadDone(i) ==
    /\ callers[i].pc = "call"
    /\ callers' = [callers EXCEPT ![i].pc = IF onceDone THEN "read" ELSE "lock"]
    /\ UNCHANGED <<config, world, memoVars, reviewVars, onceM, initRuns, mainVars, handlers>>

\* o.m.Lock(); if o.done.Load() == 0 { defer o.done.Store(1); f() }
OnceLock(i) ==
    /\ callers[i].pc = "lock"
    /\ MutexLock(onceM)
    /\ onceM' = i
    /\ callers' = [callers EXCEPT ![i].pc = IF onceDone THEN "unlock" ELSE "initializeEnvs"]
    /\ initRuns' = IF onceDone THEN initRuns ELSE initRuns + 1
    /\ UNCHANGED <<config, world, memoVars, reviewVars, mainVars, handlers>>

\* one c.envs = append(c.envs, ...) of initializeEnvs
InitializeEnvsStep(i) ==
    /\ callers[i].pc = "initializeEnvs"
    /\ IF envs.len < Len(config.Envs)
       THEN /\ envs' = LET kv == config.Envs[envs.len + 1]
                       IN AppendSlice(envs, << EnvVar(kv[1], <<kv[2]>>, "") >>)
            /\ UNCHANGED callers
       ELSE /\ envs' = AppendSlice(envs,
                           << EnvVar("SPIFFE_ENDPOINT_SOCKET", <<"unix:///run/spire/sockets/agent.sock">>, ""),
                              EnvVar("POD_NAME", <<>>, "metadata.name") >>)
            /\ callers' = [callers EXCEPT ![i].pc = "initializeCert"]
    /\ UNCHANGED <<config, world, onceDone, cert, caBundle, reviewVars, onceM, initRuns, mainVars, handlers>>

\* c.initializeCert(); a panic unwinds through the deferred o.done.Store(1)
\* and o.m.Unlock()
InitializeCertStep(i) ==
    /\ callers[i].pc = "initializeCert"
    /\ LET m == initializeCert(config, world, Memo)
       IN /\ cert' = m.cert
          /\ caBundle' = m.caBundle
          /\ callers' = [callers EXCEPT ![i].pc = IF m.panic # "" THEN "panicked" ELSE "initializeCABundle"]
          /\ onceDone' = (onceDone \/ m.panic # "")
          /\ onceM' = IF m.panic # "" THEN 0 ELSE onceM
    /\ UNCHANGED <<config, world, envs, reviewVars, initRuns, mainVars, handlers>>

\* c.initializeCABundle()
InitializeCABundleStep(i) ==
    /\ callers[i].pc = "initializeCABundle"
    /\ LET m == initializeCABundle(config, world, Memo)
       IN /\ caBundle' = m.caBundle
          /\ callers' = [callers EXCEPT ![i].pc = IF m.panic # "" THEN "panicked" ELSE "unlock"]
          /\ onceDone' = (onceDone \/ m.panic # "")
          /\ onceM' = IF m.panic # "" THEN 0 ELSE onceM
    /\ UNCHANGED <<config, world, envs, cert, reviewVars, initRuns, mainVars, handlers>>

\* the deferred o.done.Store(1) and o.m.Unlock()
OnceUnlock(i) ==
    /\ callers[i].pc = "unlock"
    /\ onceDone' = TRUE
    /\ onceM' = 0
    /\ callers' = [callers EXCEPT ![i].pc = "read"]
    /\ UNCHANGED <<config, world, envs, cert, caBundle, reviewVars, initRuns, mainVars, handlers>>

\* return c.envs, return c.caBundle, return c.cert
AccessorReturn(i) ==
    /\ callers[i].pc = "read"
    /\ callers' = [callers EXCEPT
          ![i].pc = "returned",
          ![i].ret = CASE callers[i].accessor = "GetOrResolveEnvs" -> [NoReturn EXCEPT !.envs = SliceElems(envs)]
                       [] callers[i].accessor = "GetOrResolveCABundle" -> [NoReturn EXCEPT !.caBundle = caBundle]
                       [] OTHER -> [NoReturn EXCEPT !.cert = cert]]
    /\ UNCHANGED <<config, world, memoVars, reviewVars, onceM, initRuns, mainVars, handlers>>

NextOnce ==
    \E i \in Callers :
        \/ OnceLoadDone(i)
        \/ OnceLock(i)
        \/ InitializeEnvsStep(i)
        \/ InitializeCertStep(i)
        \/ InitializeCABundleStep(i)
        \/ OnceUnlock(i)
        \/ AccessorReturn(i)

SpecOnce == InitOnce /\ [][NextOnce]_vars

\* what initialize leaves in the Config when nothing runs beside it
Initialized == initialize(config, world, ZeroMemo)

\* what the accessor of caller i returns from a Config initialize has left
ExpectedReturn(i) ==
    CASE callers[i].accessor = "GetOrResolveEnvs" -> [NoReturn EXCEPT !.envs = SliceElems(Initialized.envs)]
      [] callers[i].accessor = "GetOrResolveCABundle" -> [NoReturn EXCEPT !.caBundle = Initialized.caBundle]
      [] OTHER -> [NoReturn EXCEPT !.cert = Initialized.cert]

\* a caller is inside initialize
Initializing(i) == callers[i].pc \in {"initializeEnvs", "initializeCert", "initializeCABundle"}

\* C11: under every interleaving of first calls of the three accessors on one
\* Config, initialize is entered at most once, and a caller that has returned
\* did so after the one run of initialize was over (the Once is done and no
\* caller is inside initialize) with the env list, certificate or CA bundle
\* the complete initialisation produces.
C11_OnceInitialized ==
    /\ initRuns <= 1
    /\ \A i \in DOMAIN callers :
         callers[i].pc = "returned" =>
            /\ initRuns = 1
            /\ onceDone
            /\ \A j \in DOMAIN callers : ~Initializing(j)
            /\ callers[i].ret = ExpectedReturn(i)

\* in self-registering mode a caller of GetOrResolveEnvs and a caller of
\* GetOrResolveCABundle, started together, have both returned
C11_Witness ==
    /\ DOMAIN callers = Callers
    /\ \A i \in Callers : callers[i].pc = "returned"
    /\ callers[1].accessor = "GetOrResolveEnvs"
    /\ callers[2].accessor = "GetOrResolveCABundle"
    /\ callers[2].ret.caBundle # NoBytes
    /\ Len(callers[1].ret.envs) = MaxEnvs + 2

(***************************************************************************)
(* main() from the registration to the end of the process (src/main.go).   *)
(* The surroundings are drawn once: world tells which loads and            *)
(* connections succeed. logger.Fatal ends the process by os.Exit, which    *)
(* runs no deferred function; a panic and a return of main run them.       *)
(***************************************************************************)
Worlds == [keyPair : BOOLEAN, caBundle : BOOLEAN, x509Source : BOOLEAN, register : BOOLEAN, clientSet : BOOLEAN]

\* the ways the process stops
Fatal == "logger.Fatal"

Panic == "panic"

Return == "return"

\* tlsconfig.GetCertificate(source)
GetCertificateFromSource == "x509source"

\* registerClient.Register: it publishes the webhook configuration with the
\* CA bundle c.GetOrResolveCABundle() resolves; err is its error
Register(c, w, done, m) ==
    LET after == OnceDo(c, w, done, m)
    IN [memo |-> after,
        err |-> IF after.panic = "" /\ ~w.register THEN "unable to register the webhook configuration" ELSE ""]

\* prepareTLSConfig; isDone tells whether ctx is done when it is looked at,
\* closeErr whether source.Close() returns an error (err.Error() of the nil
\* error panics)
prepareTLSConfig(c, w, done, m, isDone, closeErr) ==
    IF c.WebhookMode = SpireMode /\ ~IsExistingCertificatesUsed(c)
    THEN IF ~w.x509Source
         THEN [tlsConfig |-> NoTLSConfig, err |-> "error getting x509 source", memo |-> m, done |-> done]
         ELSE [tlsConfig |-> [Certificates |-> <<>>, GetCertificate |-> GetCertificateFromSource],
               err |-> "",
               memo |-> IF isDone /\ ~closeErr THEN [m EXCEPT !.panic = "nil pointer dereference"] ELSE m,
               done |-> done]
    ELSE LET after == OnceDo(c, w, done, m)
         IN [tlsConfig |-> [Certificates |-> <<after.cert>>, GetCertificate |-> ""],
             err |-> "", memo |-> after, done |-> TRUE]

InitMain ==
    /\ config \in ModeConfigs
    /\ world \in Worlds
    /\ onceDone = FALSE
    /\ envs = NilSlice
    /\ cert = ZeroCertificate
    /\ caBundle = NoBytes
    /\ mainPc = "start"
    /\ ctxDone = FALSE
    /\ registered = FALSE
    /\ unregisterCalls = 0
    /\ tlsConfig = NoTLSConfig
    /\ serving = "no"
    /\ exit = ""
    /\ uuids = <<>> /\ pc = "idle" /\ req = NoRequest /\ namespace = NilNamespace
    /\ nsErr = FALSE /\ marshalErr = FALSE /\ resp = NoResponse
    /\ OnceAtRest
    /\ handlers = <<>>

\* the process stops; the deferred unregister runs unless os.Exit ends it
Exit(how) ==
    /\ mainPc' = "exited"
    /\ exit' = how
    /\ unregisterCalls' = IF how # Fatal /\ registered' THEN unregisterCalls + 1 ELSE unregisterCalls

\* what a call of c.once.Do leaves in the Config
SetMemo(m) ==
    /\ envs' = m.envs
    /\ cert' = m.cert
    /\ caBundle' = m.caBundle

\* a signal cancels the context of signal.NotifyContext
Signal ==
    /\ exit = ""
    /\ ~ctxDone
    /\ ctxDone' = TRUE
    /\ UNCHANGED <<config, world, memoVars, reviewVars, onceVars, handlers>>
    /\ UNCHANGED <<mainPc, registered, unregisterCalls, tlsConfig, serving, exit>>

\* if conf.WebhookMode == config.SelfregisterMode { unregister := registerSelf(...); defer ... }
RegisterSelf ==
    /\ mainPc = "start"
    /\ config.WebhookMode = SelfregisterMode
    /\ LET r == Register(config, world, onceDone, Memo)
       IN /\ SetMemo(r.memo)
          /\ onceDone' = TRUE
          /\ registered' = (r.memo.panic = "" /\ r.err = "")
          /\ IF r.memo.panic # "" THEN Exit(Panic)
             ELSE IF r.err # "" THEN Exit(Fatal)
             ELSE mainPc' = "tls" /\ UNCHANGED <<exit, unregisterCalls>>
    /\ UNCHANGED <<config, world, reviewVars, onceVars, handlers, ctxDone, tlsConfig, serving>>

\* in spire mode main registers nothing
SkipRegister ==
    /\ mainPc = "start"
    /\ config.WebhookMode # SelfregisterMode
    /\ mainPc' = "tls"
    /\ UNCHANGED <<config, world, memoVars, reviewVars, onceVars, handlers>>
    /\ UNCHANGED <<ctxDone, registered, unregisterCalls, tlsConfig, serving, exit>>

\* tlsConfig, err := prepareTLSConfig(ctx, conf, logger); if err != nil { logger.Fatal(...) }
PrepareTLSConfig ==
    /\ mainPc = "tls"
    /\ UNCHANGED <<config, world, reviewVars, onceVars, handlers, ctxDone, registered, serving>>
    /\ \E closeErr \in BOOLEAN :
          LET r == prepareTLSConfig(config, world, onceDone, Memo, ctxDone, closeErr)
          IN /\ SetMemo(r.memo)
             /\ onceDone' = r.done
             /\ tlsConfig' = IF r.memo.panic = "" THEN r.tlsConfig ELSE NoTLSConfig
             /\ IF r.memo.panic # "" THEN Exit(Panic)
                ELSE IF r.err # "" THEN Exit(Fatal)
                ELSE mainPc' = "client" /\ UNCHANGED <<exit, unregisterCalls>>

\* kubeutils.NewClientSetConfig and kubernetes.NewForConfig, each followed by
\* if err != nil { logger.Fatal(...) }
NewClientSet ==
    /\ mainPc = "client"
    /\ UNCHANGED <<config, world, memoVars, reviewVars, onceVars, handlers>>
    /\ UNCHANGED <<ctxDone, registered, tlsConfig, serving>>
    /\ IF world.clientSet
       THEN mainPc' = "select" /\ UNCHANGED <<exit, unregisterCalls>>
       ELSE Exit(Fatal)

\* go func() { startServerErr <- s.StartServer(server) }(): the server
\* accepts requests, or StartServer returns at once
StartServer ==
    /\ mainPc = "select"
    /\ serving = "no"
    /\ serving' \in {"yes", "failed"}
    /\ UNCHANGED <<config, world, memoVars, reviewVars, onceVars, handlers>>
    /\ UNCHANGED <<mainPc, ctxDone, registered, unregisterCalls, tlsConfig, exit>>

\* s.StartServer returns while the server was accepting requests
ServerStops ==
    /\ exit = ""
    /\ serving = "yes"
    /\ serving' = "failed"
    /\ UNCHANGED <<config, world, memoVars, reviewVars, onceVars, handlers>>
    /\ UNCHANGED <<mainPc, ctxDone, registered, unregisterCalls, tlsConfig, exit>>

\* case err := <-startServerErr: if ctx.Err() != nil { logger.Fatal(...) }
SelectServerErr ==
    /\ mainPc = "select"
    /\ serving = "failed"
    /\ UNCHANGED <<config, world, memoVars, reviewVars, onceVars, handlers>>
    /\ UNCHANGED <<ctxDone, registered, tlsConfig, serving>>
    /\ IF ctxDone THEN Exit(Fatal) ELSE Exit(Return)

\* case <-ctx.Done(): return
SelectCtxDone ==
    /\ mainPc = "select"
    /\ ctxDone
    /\ UNCHANGED <<config, world, memoVars, reviewVars, onceVars, handlers>>
    /\ UNCHANGED <<ctxDone, registered, tlsConfig, serving>>
    /\ Exit(Return)

NextMain ==
    \/ Signal
    \/ RegisterSelf
    \/ SkipRegister
    \/ PrepareTLSConfig
    \/ NewClientSet
    \/ StartServer
    \/ ServerStops
    \/ SelectServerErr
    \/ SelectCtxDone

SpecMain == InitMain /\ [][NextMain]_vars

(***************************************************************************)
(* Properties of the startup. Both paths configured is written out in the  *)
(* properties, so that they say what the claims say.                       *)
(***************************************************************************)
BothPathsConfigured == config.CertFilePath # "" /\ config.KeyFilePath # ""

\* GetOrResolveCABundle has returned to its caller in self-registering mode
CABundleResolved == config.WebhookMode = SelfregisterMode /\ onceDone /\ exit # Panic

\* C12: in self-registering mode the CA bundle GetOrResolveCABundle returns is
\* the content of the configured CA-bundle file whenever CABundleFilePath is
\* configured, and the PEM encoding of the self-signed certificate only when
\* it is not, whichever of the certificate and key paths are configured.
C12_CABundleFromConfiguredFile ==
    CABundleResolved =>
        caBundle = IF config.CABundleFilePath # ""
                   THEN ReadFile(config.CABundleFilePath)
                   ELSE pemCert(selfSignedInMemoryCertificate(config))

\* prepareTLSConfig has returned a configuration
TLSPrepared == tlsConfig # NoTLSConfig

\* C13: the certificate is resolved in strict priority. With both the
\* certificate and the key path configured the key pair of those files is the
\* certificate of the TLS configuration in either mode, and when it cannot be
\* loaded no TLS configuration is ever prepared and the server never starts;
\* otherwise in spire mode Config.cert stays the zero certificate and the TLS
\* configuration takes its certificate per handshake from the X509 source;
\* otherwise the certificate is the self-signed one. One configured path
\* alone counts as none.
C13_CertificatePriority ==
    /\ (BothPathsConfigured /\ ~world.keyPair) => (~TLSPrepared /\ serving = "no" /\ mainPc \notin {"client", "select"})
    /\ TLSPrepared =>
         IF BothPathsConfigured
         THEN /\ cert = LoadX509KeyPair(config.CertFilePath, config.KeyFilePath)
              /\ tlsConfig = [Certificates |-> <<cert>>, GetCertificate |-> ""]
         ELSE IF config.WebhookMode = SpireMode
         THEN /\ cert = ZeroCertificate
              /\ tlsConfig = [Certificates |-> <<>>, GetCertificate |-> GetCertificateFromSource]
         ELSE /\ cert = selfSignedInMemoryCertificate(config)
              /\ tlsConfig = [Certificates |-> <<cert>>, GetCertificate |-> ""]

\* in spire mode with both paths configured the TLS configuration carries the
\* key pair of the files, and the server accepts requests
C13_Witness ==
    /\ config.WebhookMode = SpireMode
    /\ BothPathsConfigured
    /\ TLSPrepared
    /\ tlsConfig.Certificates = << LoadX509KeyPair("/certs/tls.crt", "/certs/tls.key") >>
    /\ serving = "yes"

\* C14: in self-registering mode, once Register has succeeded, the process
\* has not stopped (by a signal, a server error or a later startup failure)
\* without unregister having been called.
C14_UnregisterBeforeStop ==
    (config.WebhookMode = SelfregisterMode /\ registered /\ exit # "") => unregisterCalls >= 1

\* a condition the startup cannot survive: the operator's key pair cannot be
\* loaded, the CA-bundle file configured for the self-registering mode cannot
\* be read, the X509 source is required and cannot be obtained, or the API
\* client cannot be constructed
StartupFailure ==
    \/ BothPathsConfigured /\ ~world.keyPair
    \/ config.WebhookMode = SelfregisterMode /\ config.CABundleFilePath # "" /\ ~world.caBundle
    \/ config.WebhookMode = SpireMode /\ ~BothPathsConfigured /\ ~world.x509Source
    \/ ~world.clientSet

\* C15: the server has been started only after every startup step succeeded
\* (registration in self-registering mode, the TLS configuration, the API
\* client), and never under a condition the startup cannot survive.
C15_ServesAfterStartup ==
    serving # "no" =>
        /\ config.WebhookMode = SelfregisterMode => registered
        /\ TLSPrepared
        /\ world.clientSet
        /\ ~StartupFailure

(***************************************************************************)
(* Concurrent calls of Review on one Config (src/main.go). The transport   *)
(* runs one goroutine per request. A call is taken in the steps that touch *)
(* the array c.envs lives in: the append of line 123, which writes its two *)
(* elements one after the other when the capacity allows it, and the       *)
(* json.Marshal of line 128, which reads the elements of envVars.          *)
(***************************************************************************)
\* how many goroutines run Review at a time
NumHandlers == 2

\* the most entries Config.Envs holds when calls run side by side
MaxSharedEnvs == 3

Handlers == 1..NumHandlers

\* CREATE of a Pod that declares the annotation itself
SharedRequests ==
    {[UID |-> "705ab4f5", Operation |-> Create, Kind |-> "Pod", Namespace |-> "default",
      Object |-> RawObject(TRUE, ObjectMeta(Annotations(v), NilLabels, g, <<>>), EmptyMeta, EmptyPodSpec)] :
        v \in {<<PlainURL>>, <<PoolAURL>>}, g \in GenerateNames}

\* the lookup of the namespace fails: Review goes on without a namespace
GetFailed == [namespace |-> NilNamespace, err |-> TRUE]

\* a goroutine that has no request yet; envVars is the slice append returned:
\* shared tells that it lives in the array of c.envs, arr is its own array else
IdleHandler ==
    [pc |-> "idle", in |-> NoRequest, added |-> <<>>,
     envVars |-> [shared |-> FALSE, arr |-> <<>>, len |-> 0], resp |-> NoResponse]

InitShared ==
    /\ config \in {ConfigWith(n) : n \in 0..MaxSharedEnvs}
    /\ world = AllFiles
    /\ onceDone = FALSE
    /\ envs = NilSlice
    /\ cert = ZeroCertificate
    /\ caBundle = NoBytes
    /\ handlers = [g \in Handlers |-> IdleHandler]
    /\ uuids = <<>> /\ pc = "idle" /\ req = NoRequest /\ namespace = NilNamespace
    /\ nsErr = FALSE /\ marshalErr = FALSE /\ resp = NoResponse
    /\ OnceAtRest
    /\ MainInSelect

\* the /mutate handler decodes the request of goroutine g
HandlerReceive(g) ==
    /\ handlers[g].pc = "idle"
    /\ \E in \in SharedRequests : handlers' = [handlers EXCEPT ![g].pc = "received", ![g].in = in]
    /\ UNCHANGED <<config, world, memoVars, reviewVars, onceVars, mainVars>>

\* Review up to envVars := append(s.config.GetOrResolveEnvs(), ...): when the
\* array of c.envs has room, the first element is written into it
HandlerAppend(g) ==
    /\ handlers[g].pc = "received"
    /\ LET in == handlers[g].in
           view == unmarshal(in)
           annotation == effectiveAnnotation(view.podMeta.Annotations.value, in.Kind, GetFailed.namespace)
           memo == OnceDoInitialize(config, onceDone, envs)
           clientID == NewString(Len(uuids) + 1)
           added == << EnvVar(config.NSURLEnvName, annotation, ""), nsmNameEnv(view.podMeta, clientID) >>
       IN /\ onceDone' = TRUE
          /\ uuids' = IF needsClientID(view.podMeta) THEN Append(uuids, clientID) ELSE uuids
          /\ IF AppendInPlace(memo, added)
             THEN /\ envs' = [memo EXCEPT !.arr[memo.len + 1] = added[1]]
                  /\ handlers' = [handlers EXCEPT ![g].pc = "append", ![g].added = added,
                                     ![g].envVars = [shared |-> TRUE, arr |-> <<>>, len |-> memo.len + 2]]
             ELSE /\ envs' = memo
                  /\ handlers' = [handlers EXCEPT ![g].pc = "marshal", ![g].added = added,
                                     ![g].envVars = [shared |-> FALSE, arr |-> AppendSlice(memo, added).arr,
                                                     len |-> memo.len + 2]]
    /\ UNCHANGED <<config, world, cert, caBundle, pc, req, namespace, nsErr, marshalErr, resp, onceVars, mainVars>>

\* append writes its second element into the array of c.envs
HandlerAppendNext(g) ==
    /\ handlers[g].pc = "append"
    /\ envs' = [envs EXCEPT !.arr[handlers[g].envVars.len] = handlers[g].added[2]]
    /\ handlers' = [handlers EXCEPT ![g].pc = "marshal"]
    /\ UNCHANGED <<config, world, onceDone, cert, caBundle, reviewVars, onceVars, mainVars>>

\* the elements json.Marshal finds in envVars
EnvVarsElems(h) ==
    IF h.envVars.shared THEN SubSeq(envs.arr, 1, h.envVars.len) ELSE SubSeq(h.envVars.arr, 1, h.envVars.len)

\* Review from psaLevelByNamespace to its return
HandlerMarshal(g) ==
    /\ handlers[g].pc = "marshal"
    /\ \E fails \in BOOLEAN :
          LET in == handlers[g].in
              view == unmarshal(in)
              annotation == handlers[g].added[1].Value
              envVars == EnvVarsElems(handlers[g])
              psaLevel == psaLevelByNamespace(GetFailed.namespace)
              p == patchRoot(in.Kind)
              marshalled == jsonMarshal(
                  << createInitContainerPatch(config, p, annotation, view.spec.InitContainers, psaLevel, envVars),
                     createContainerPatch(config, p, view.spec.Containers, psaLevel, envVars),
                     createVolumesPatch(p, view.spec.Volumes, psaLevel),
                     createLabelPatch(config, p, view.podMeta.Labels.map) >>, fails)
          IN handlers' = [handlers EXCEPT
                ![g].pc = "done",
                ![g].resp = IF marshalled.err # ""
                            THEN Response(in.UID, FALSE, <<>>, "", marshalled.err)
                            ELSE Response(in.UID, TRUE, marshalled.bytes, PatchTypeJSONPatch, "")]
    /\ UNCHANGED <<config, world, memoVars, reviewVars, onceVars, mainVars>>

NextShared ==
    \E g \in Handlers :
        \/ HandlerReceive(g)
        \/ HandlerAppend(g)
        \/ HandlerAppendNext(g)
        \/ HandlerMarshal(g)

SpecShared == InitShared /\ [][NextShared]_vars

\* the containers the patch of goroutine g injects
HandlerInjected(g) ==
    Range(LastN(handlers[g].resp.Patch[1].value, Len(config.InitContainerImages)))
    \cup Range(LastN(handlers[g].resp.Patch[2].value, Len(config.ContainerImages)))

\* C16: under every interleaving of calls of Review on one Config, with any
\* number of configured extra env vars, the mesh-URL env var and the NSM_NAME
\* env var of every injected container of a response are the two the call
\* computed for its own request, and the memoised env list stays what
\* initializeEnvs produced.
C16_OwnEnvVarsInPatch ==
    /\ onceDone => SliceElems(envs) = SliceElems(initializeEnvs(config, NilSlice))
    /\ \A g \in DOMAIN handlers :
         (handlers[g].pc = "done" /\ handlers[g].resp.Patch # <<>>) =>
            \A c \in HandlerInjected(g) : LastN(c.Env, 2) = handlers[g].added

====
